---- MODULE Spec2Model ----
(***************************************************************************)
(* Model of ilastik/workflows/carving/opPreprocessing.py.                  *)
(*                                                                         *)
(* Spec     : OpPreprocessing (the orchestrator): execute() calls running  *)
(*            on several request threads, interleaved at the granularity   *)
(*            of a source line, and propagateDirty() run as one handler.   *)
(* SpecSeq  : the same operator, its execute() calls issued one at a time. *)
(* SpecReact: the same operator with a downstream consumer that requests   *)
(*            the result inside the notification of line 426.              *)
(* SpecMst  : one OpMstSegmentorProvider.execute() and its signals.        *)
(* SpecWs   : one OpSimpleBlockwiseWatershed.execute() on a request.       *)
(* SpecNorm : one OpNormalize255.execute() on a request.                   *)
(* SpecCheck: OpPreprocessing._checkConstraints run between the calls of   *)
(*            one client.                                                  *)
(* SpecFilter: one OpFilter.execute() with the filter as a black box.      *)
(* SpecPool : the block tasks of OpFilter / OpSimpleBlockwiseWatershed on   *)
(*            the worker pool sized by max(1, num_workers).                *)
(***************************************************************************)
EXTENDS Integers, Sequences, FiniteSets, TLC

(* ---------------------------- bounds ----------------------------------- *)
NumThreads == 2     \* request threads: execute() calls that may overlap
MaxCalls   == 3     \* execute() calls in one run (one result buffer each)
MaxChanges == 1     \* change events (propagateDirty calls) in one run

MaxCallbacks == 3   \* progress callbacks WatershedSegmentor makes in one build
MaxDim     == 2     \* largest spatial extent of a watershed input volume
NormLen    == 3     \* voxels of a normalization input volume
MaxVoxel   == 2     \* largest voxel value of a normalization input volume
MaxWorkers == 2     \* largest worker count the request thread pool reports
NumBlocks  == 3     \* block tasks one stage hands to the pool

\* Calls are numbered in the order they start; call c is handed buffer c.
Calls == 1..MaxCalls

(* ------------------------- OpPreprocessing ----------------------------- *)
\* The five parameter input slots and the root input slot.
ParamNames == {"Sigma", "Filter", "DoAgglo", "SizeRegularizer", "ReduceTo"}
SlotNames  == ParamNames \cup {"InputData"}

\* Python's None for a snapshot field; slot values are abstract tokens 1, 2.
None   == 0
Values == {1, 2}

\* result[0] of a buffer that holds no graph (numpy object array cell = None).
NoGraph == [id |-> 0, with |-> [s \in SlotNames |-> None]]

\* Result buffers: 0 is the placeholder list [None] of __init__ and of the
\* complete restart; 1..MaxCalls are the buffers handed to execute().
ResIds == 0..MaxCalls

VARIABLES
    slotValue,      \* current value of every input slot
    dirty,          \* self._dirty
    cachedResult,   \* self.cachedResult (a reference to a result buffer)
    heap,           \* content of cell 0 of every result buffer
    cached,         \* self.cachedSigma, cachedFilter, ... (the snapshot)
    hasUnsavedData, \* self.hasUnsavedData
    setDirtyCount,  \* PreprocessedData.setDirty notifications sent
    pc,             \* per call: source line the thread is about to run
    volume_feat,    \* per call: slot values the feature volume was read at
    labelVolume,    \* per call: slot values the label volume was read at
    mst,            \* per call: local variable mst of execute()
    ret,            \* per call: buffer returned by the last finished call
    nextRes,        \* next unused result buffer
    reactTo,        \* per call: the call whose notification requested it
    changes,        \* change events so far
    \* ---- history (observers only; no guard of the program reads them)
    solo,           \* per call: no other call overlapped this call so far
    quiet,          \* per call: no change event arrived during this call
    expectSame,     \* per call: buffer the previous undisturbed call returned
    expectNew,      \* per call: buffer cached before the preceding change
    seqRet,         \* buffer returned by the last call, if still undisturbed
    seqChg,         \* buffer cached when parameters changed between calls
    builds,         \* graphs built since the last change event
    \* ---- OpMstSegmentorProvider.execute (SpecMst)
    mpc,            \* source line the build is about to run
    signals,        \* values passed to applet.progressSignal, in order
    progress,       \* self.applet.progress
    callbacks,      \* progress callbacks made so far
    callbackArg,    \* argument x of the latest progress callback
    inputsRead,     \* input slots the build has read so far
    exitPath,       \* how the build left execute()
    \* ---- OpSimpleBlockwiseWatershed.execute (SpecWs)
    wpc,            \* source line the stage is about to run
    wshape,         \* Output.meta.shape = Input.meta.shape, (t, x, y, z, c)
    waxes,          \* Input.meta.getAxisKeys()
    wroi,           \* the requested region: [start, stop), one pair per axis
    wDoAgglo,       \* DoAgglo.value
    wresult,        \* the output buffer: a label per voxel, 0 = not written
    winputRead,     \* the stage has read its input
    wflooded,       \* the flooding step has run
    \* ---- OpNormalize255.execute (SpecNorm)
    npc,            \* source line the stage is about to run
    nvolume,        \* the input volume, flattened
    nroi,           \* the requested region: voxels nroi[1] .. nroi[2]
    nresult,        \* the result buffer, a number per requested voxel
    volume_max,     \* local volume_max
    volume_min,     \* local volume_min
    \* ---- block tasks of a stage on the worker pool (SpecPool)
    ppc,            \* where the stage is: enter, blocks, returned
    pstage,         \* the stage: OpFilter or OpSimpleBlockwiseWatershed
    pDoAgglo,       \* DoAgglo.value (read by the watershed stage only)
    num_workers,    \* Request.global_thread_pool.num_workers
    max_workers,    \* the max_workers argument handed to the block code
    task,           \* per block task: pending, running or done
    \* ---- OpPreprocessing._checkConstraints (SpecCheck)
    cpc,            \* source line the callback is about to run
    cmeta,          \* InputData: ready(), tagged extents, axis layout
    coverlay,       \* OverlayData: ready(), eq_shapes with InputData
    cerror,         \* the exception the callback raised, if any
    \* ---- OpFilter.execute (SpecFilter)
    fpc,            \* source line the stage is about to run
    volume,         \* the input intensities, flattened
    zExtent,        \* volume.shape[2]
    volume_filter,  \* self.Filter.value
    filter_name,    \* local filter_name
    fvol,           \* local fvol, flattened
    ndim,           \* fvol.ndim
    channel,        \* local channel
    filterCall,     \* the arguments parallel_filter was called with
    filtered,       \* what parallel_filter returned
    response,       \* local response
    result_view     \* the output buffer

orchAll == <<slotValue, dirty, cachedResult, heap, cached, hasUnsavedData,
             setDirtyCount, pc, volume_feat, labelVolume, mst, ret,
             nextRes, reactTo, changes, solo, quiet, expectSame, expectNew,
             seqRet, seqChg, builds>>
mstVars  == <<mpc, signals, progress, callbacks, callbackArg, inputsRead, exitPath>>
wsVars   == <<wpc, wshape, waxes, wroi, wDoAgglo, wresult, winputRead, wflooded>>
normVars == <<npc, nvolume, nroi, nresult, volume_max, volume_min>>
poolVars == <<ppc, pstage, pDoAgglo, num_workers, max_workers, task>>
checkVars == <<cpc, cmeta, coverlay, cerror>>
filterVars == <<fpc, volume, zExtent, volume_filter, filter_name, fvol, ndim,
                channel, filterCall, filtered, response, result_view>>
stageVars == <<mstVars, wsVars, normVars, poolVars, checkVars, filterVars>>

vars == <<orchAll, mstVars, wsVars, normVars, poolVars, checkVars, filterVars>>

orchVars == <<dirty, cachedResult, heap, cached, hasUnsavedData>>
histVars == <<reactTo, solo, quiet, expectSame, expectNew, seqRet, seqChg, builds>>

cachedSigma           == cached["Sigma"]
cachedFilter          == cached["Filter"]
cachedDoAgglo         == cached["DoAgglo"]
cachedSizeRegularizer == cached["SizeRegularizer"]
cachedReduceTo        == cached["ReduceTo"]

Resting   == {"new", "done", "failed"}
Active(c) == pc[c] \notin Resting
NoSlots   == [s \in SlotNames |-> None]
Unset     == [p \in ParamNames |-> None]

\* OpPreprocessing.__init__
InitOrch ==
    /\ slotValue = [s \in SlotNames |-> 1]
    /\ dirty = FALSE
    /\ cachedResult = 0
    /\ heap = [r \in ResIds |-> NoGraph]
    /\ cached = Unset
    /\ hasUnsavedData = FALSE
    /\ setDirtyCount = 0
    /\ pc = [c \in Calls |-> "new"]
    /\ volume_feat = [c \in Calls |-> NoSlots]
    /\ labelVolume = [c \in Calls |-> NoSlots]
    /\ mst = [c \in Calls |-> NoGraph]
    /\ ret = [c \in Calls |-> 0]
    /\ nextRes = 1
    /\ reactTo = [c \in Calls |-> 0]
    /\ changes = 0
    /\ solo = [c \in Calls |-> FALSE]
    /\ quiet = [c \in Calls |-> FALSE]
    /\ expectSame = [c \in Calls |-> 0]
    /\ expectNew = [c \in Calls |-> 0]
    /\ seqRet = 0
    /\ seqChg = 0
    /\ builds = 0

\* The stages at rest, as they are while the orchestrator is observed.
MstIdle ==
    /\ mpc = "idle" /\ signals = <<>> /\ progress = 0 /\ callbacks = 0
    /\ callbackArg = 0 /\ inputsRead = {} /\ exitPath = "none"

WsIdle ==
    /\ wpc = "idle" /\ wshape = <<1, 1, 1, 1, 1>> /\ waxes = "txyzc"
    /\ wroi = [a \in 1..5 |-> <<0, 1>>] /\ wDoAgglo = TRUE
    /\ wresult = <<>> /\ winputRead = FALSE /\ wflooded = FALSE

NormIdle ==
    /\ npc = "idle" /\ nvolume = <<>> /\ nroi = <<1, 0>> /\ nresult = <<>>
    /\ volume_max = 0 /\ volume_min = 0

Blocks == 1..NumBlocks

PoolIdle ==
    /\ ppc = "idle" /\ pstage = "OpFilter" /\ pDoAgglo = TRUE
    /\ num_workers = 1 /\ max_workers = 0
    /\ task = [b \in Blocks |-> "pending"]

\* No exception.
NoError == [type |-> "none", category |-> "", message |-> <<>>]

CheckIdle ==
    /\ cpc = "idle"
    /\ cmeta = [ready |-> FALSE, t |-> 1, c |-> 1, naxes |-> 5, spatial |-> TRUE]
    /\ coverlay = [ready |-> FALSE, eq |-> TRUE]
    /\ cerror = NoError

\* Python's None for return_channel.
NoChannel == -1

NoCall == [name |-> "", vol |-> <<>>, return_channel |-> NoChannel]

FilterIdle ==
    /\ fpc = "idle" /\ volume = <<>> /\ zExtent = 1 /\ volume_filter = 0
    /\ filter_name = "" /\ fvol = <<>> /\ ndim = 3 /\ channel = NoChannel
    /\ filterCall = NoCall /\ filtered = <<>> /\ response = <<>>
    /\ result_view = <<>>

Init ==
    /\ InitOrch /\ MstIdle /\ WsIdle /\ NormIdle /\ PoolIdle /\ CheckIdle
    /\ FilterIdle

NoneActive == \A c \in Calls : ~Active(c)

\* The test of line 405: the cached buffer may be returned.
CacheUsable_Inverted == dirty /\ heap[cachedResult].id # 0

CacheUsable_IgnoresDirty == heap[cachedResult].id # 0

CacheUsable_IgnoresCache == ~dirty

CacheUsable == ~dirty /\ heap[cachedResult].id # 0

\* execute, lines 403-405: a request thread enters execute() with a fresh
\* result buffer; the test of line 405 decides between the cached return and
\* the rebuild.
Call(c) ==
    /\ c = nextRes
    /\ Cardinality({d \in Calls : Active(d)}) < NumThreads
    /\ nextRes' = nextRes + 1
    /\ pc' = [pc EXCEPT ![c] = IF CacheUsable THEN "L406" ELSE "L238"]
    /\ solo' = [d \in Calls |-> IF d = c THEN NoneActive
                                 ELSE IF Active(d) THEN FALSE ELSE solo[d]]
    /\ quiet' = [quiet EXCEPT ![c] = TRUE]
    /\ expectSame' = [expectSame EXCEPT ![c] = IF NoneActive THEN seqRet ELSE 0]
    /\ expectNew' = [expectNew EXCEPT ![c] = IF NoneActive THEN seqChg ELSE 0]
    /\ seqRet' = 0
    /\ seqChg' = 0
    /\ UNCHANGED <<stageVars, slotValue, orchVars, setDirtyCount, volume_feat,
                   labelVolume, mst, ret, reactTo, changes, builds>>

\* execute, line 406: return self.cachedResult
ReturnCached_Notifies(c) ==
    /\ pc[c] = "L406"
    /\ ret' = [ret EXCEPT ![c] = cachedResult]
    /\ pc' = [pc EXCEPT ![c] = "done"]
    /\ seqRet' = IF solo[c] /\ quiet[c] THEN cachedResult ELSE 0
    /\ setDirtyCount' = setDirtyCount + 1
    /\ UNCHANGED <<stageVars, slotValue, orchVars, volume_feat,
                   labelVolume, mst, nextRes, reactTo, changes, solo, quiet,
                   expectSame, expectNew, seqChg, builds>>

ReturnCached(c) ==
    /\ pc[c] = "L406"
    /\ ret' = [ret EXCEPT ![c] = cachedResult]
    /\ pc' = [pc EXCEPT ![c] = "done"]
    /\ seqRet' = IF solo[c] /\ quiet[c] THEN cachedResult ELSE 0
    /\ UNCHANGED <<stageVars, slotValue, orchVars, setDirtyCount, volume_feat,
                   labelVolume, mst, nextRes, reactTo, changes, solo, quiet,
                   expectSame, expectNew, seqChg, builds>>

\* execute, line 408 -> OpMstSegmentorProvider.execute, line 238: the feature
\* volume is read through the filter chain at the current InputData, Sigma
\* and Filter.
ReadImage(c) ==
    /\ pc[c] = "L238"
    /\ volume_feat' = [volume_feat EXCEPT ![c] =
            [s \in SlotNames |->
                IF s \in {"InputData", "Sigma", "Filter"} THEN slotValue[s] ELSE None]]
    /\ pc' = [pc EXCEPT ![c] = "L239"]
    /\ UNCHANGED <<stageVars, slotValue, orchVars, setDirtyCount, labelVolume,
                   mst, ret, nextRes, changes, histVars>>

\* OpMstSegmentorProvider.execute, line 239: the label volume is read through
\* the watershed at the current DoAgglo, SizeRegularizer and ReduceTo.
ReadLabelImage(c) ==
    /\ pc[c] = "L239"
    /\ labelVolume' = [labelVolume EXCEPT ![c] =
            [s \in SlotNames |->
                IF s \in {"DoAgglo", "SizeRegularizer", "ReduceTo"} THEN slotValue[s] ELSE None]]
    /\ pc' = [pc EXCEPT ![c] = "L256"]
    /\ UNCHANGED <<stageVars, slotValue, orchVars, setDirtyCount, volume_feat,
                   mst, ret, nextRes, changes, histVars>>

\* The graph WatershedSegmentor builds from the two volumes read.
NewMst(c) ==
    [id |-> c,
     with |-> [s \in SlotNames |->
                 IF volume_feat[c][s] # None THEN volume_feat[c][s] ELSE labelVolume[c][s]]]

\* OpMstSegmentorProvider.execute, lines 256-267, and the assignment of line
\* 408: the graph is built and becomes the local mst.
BuildMst(c) ==
    /\ pc[c] = "L256"
    /\ mst' = [mst EXCEPT ![c] = NewMst(c)]
    /\ volume_feat' = [volume_feat EXCEPT ![c] = NoSlots]
    /\ labelVolume' = [labelVolume EXCEPT ![c] = NoSlots]
    /\ pc' = [pc EXCEPT ![c] = "L410"]
    /\ builds' = builds + 1
    /\ UNCHANGED <<stageVars, slotValue, orchVars, setDirtyCount, ret, nextRes,
                   reactTo, changes, solo, quiet, expectSame, expectNew, seqRet,
                   seqChg>>

\* A stage raises while line 408 is evaluated: the exception leaves execute().
StageFails_ClearsDirty(c) ==
    /\ pc[c] \in {"L238", "L239", "L256"}
    /\ pc' = [pc EXCEPT ![c] = "failed"]
    /\ volume_feat' = [volume_feat EXCEPT ![c] = NoSlots]
    /\ labelVolume' = [labelVolume EXCEPT ![c] = NoSlots]
    /\ dirty' = FALSE
    /\ UNCHANGED <<stageVars, slotValue, cachedResult, heap, cached, hasUnsavedData,
                   setDirtyCount, mst, ret, nextRes, changes, histVars>>

StageFails(c) ==
    /\ pc[c] \in {"L238", "L239", "L256"}
    /\ pc' = [pc EXCEPT ![c] = "failed"]
    /\ volume_feat' = [volume_feat EXCEPT ![c] = NoSlots]
    /\ labelVolume' = [labelVolume EXCEPT ![c] = NoSlots]
    /\ UNCHANGED <<stageVars, slotValue, orchVars, setDirtyCount, mst, ret,
                   nextRes, changes, histVars>>

\* execute, lines 410-414: one snapshot field per line.
SnapshotLine(l) ==
    CASE l = "L410" -> "Sigma"
      [] l = "L411" -> "Filter"
      [] l = "L412" -> "DoAgglo"
      [] l = "L413" -> "SizeRegularizer"
      [] l = "L414" -> "ReduceTo"

NextLine(l) ==
    CASE l = "L410" -> "L411"
      [] l = "L411" -> "L412"
      [] l = "L412" -> "L413"
      [] l = "L413" -> "L414"
      [] l = "L414" -> "L416"

Snapshot(c) ==
    /\ pc[c] \in {"L410", "L411", "L412", "L413", "L414"}
    /\ cached' = [cached EXCEPT ![SnapshotLine(pc[c])] = slotValue[SnapshotLine(pc[c])]]
    /\ pc' = [pc EXCEPT ![c] = NextLine(pc[c])]
    /\ UNCHANGED <<stageVars, slotValue, dirty, cachedResult, heap, hasUnsavedData,
                   setDirtyCount, volume_feat, labelVolume, mst, ret,
                   nextRes, changes, histVars>>

\* execute, line 416
SetUnsaved(c) ==
    /\ pc[c] = "L416"
    /\ hasUnsavedData' = TRUE
    /\ pc' = [pc EXCEPT ![c] = "L417"]
    /\ UNCHANGED <<stageVars, slotValue, dirty, cachedResult, heap, cached,
                   setDirtyCount, volume_feat, labelVolume, mst, ret,
                   nextRes, changes, histVars>>

\* execute, line 417
ClearDirty(c) ==
    /\ pc[c] = "L417"
    /\ dirty' = FALSE
    /\ pc' = [pc EXCEPT ![c] = "L419"]
    /\ UNCHANGED <<stageVars, slotValue, cachedResult, heap, cached, hasUnsavedData,
                   setDirtyCount, volume_feat, labelVolume, mst, ret,
                   nextRes, changes, histVars>>

\* execute, line 419
StoreResult(c) ==
    /\ pc[c] = "L419"
    /\ cachedResult' = c
    /\ pc' = [pc EXCEPT ![c] = "L421"]
    /\ UNCHANGED <<stageVars, slotValue, dirty, heap, cached, hasUnsavedData,
                   setDirtyCount, volume_feat, labelVolume, mst, ret,
                   nextRes, changes, histVars>>

\* execute, line 421
StoreMst(c) ==
    /\ pc[c] = "L421"
    /\ heap' = [heap EXCEPT ![c] = mst[c]]
    /\ pc' = [pc EXCEPT ![c] = "L426"]
    /\ UNCHANGED <<stageVars, slotValue, dirty, cachedResult, cached, hasUnsavedData,
                   setDirtyCount, volume_feat, labelVolume, mst, ret,
                   nextRes, changes, histVars>>

\* execute, lines 426-427: notify downstream, return result
NotifyAndReturn(c) ==
    /\ pc[c] = "L426"
    /\ setDirtyCount' = setDirtyCount + 1
    /\ ret' = [ret EXCEPT ![c] = c]
    /\ mst' = [mst EXCEPT ![c] = NoGraph]
    /\ pc' = [pc EXCEPT ![c] = "done"]
    /\ seqRet' = IF solo[c] /\ quiet[c] THEN c ELSE 0
    /\ UNCHANGED <<stageVars, slotValue, orchVars, volume_feat, labelVolume,
                   nextRes, reactTo, changes, solo, quiet, expectSame,
                   expectNew, seqChg, builds>>

\* The other value of a slot: a change event always carries a new value.
Flip(v) == 3 - v

\* propagateDirty, lines 433-437: the complete restart of the snapshot c.
RestartSnapshot_KeepsReduceTo(c) ==
    [p \in ParamNames |-> IF p = "ReduceTo" THEN c[p] ELSE None]

RestartSnapshot(c) == [p \in ParamNames |-> None]

\* propagateDirty, lines 429-440, for a change of slot s.
propagateDirty(s) ==
    /\ changes < MaxChanges
    /\ changes' = changes + 1
    /\ slotValue' = [slotValue EXCEPT ![s] = Flip(slotValue[s])]
    /\ IF s = "InputData"
          THEN /\ cached' = RestartSnapshot(cached)
               /\ cachedResult' = 0
          ELSE UNCHANGED <<cached, cachedResult>>
    /\ dirty' = TRUE
    /\ quiet' = [c \in Calls |-> IF Active(c) THEN FALSE ELSE quiet[c]]
    /\ seqRet' = 0
    /\ seqChg' = IF s # "InputData" /\ NoneActive
                    /\ heap[cachedResult].id # 0
                 THEN cachedResult ELSE 0
    /\ builds' = 0
    /\ UNCHANGED <<stageVars, heap, hasUnsavedData, setDirtyCount, pc,
                   volume_feat, labelVolume, mst, ret, nextRes, reactTo,
                   solo, expectSame, expectNew>>

Next ==
    \/ \E c \in Calls : Call(c)
    \/ \E c \in Calls : ReturnCached(c)
    \/ \E c \in Calls : ReadImage(c)
    \/ \E c \in Calls : ReadLabelImage(c)
    \/ \E c \in Calls : BuildMst(c)
    \/ \E c \in Calls : StageFails(c)
    \/ \E c \in Calls : Snapshot(c)
    \/ \E c \in Calls : SetUnsaved(c)
    \/ \E c \in Calls : ClearDirty(c)
    \/ \E c \in Calls : StoreResult(c)
    \/ \E c \in Calls : StoreMst(c)
    \/ \E c \in Calls : NotifyAndReturn(c)
    \/ \E s \in SlotNames : propagateDirty(s)

Spec == Init /\ [][Next]_vars

\* The same operator driven by a client that issues its requests one after
\* the other: a call starts only when no call is running.  Change events
\* still arrive at any point of a call.
CallSeq(c) == NoneActive /\ Call(c)

NextSeq ==
    \/ \E c \in Calls : CallSeq(c)
    \/ \E c \in Calls : ReturnCached(c)
    \/ \E c \in Calls : ReadImage(c)
    \/ \E c \in Calls : ReadLabelImage(c)
    \/ \E c \in Calls : BuildMst(c)
    \/ \E c \in Calls : StageFails(c)
    \/ \E c \in Calls : Snapshot(c)
    \/ \E c \in Calls : SetUnsaved(c)
    \/ \E c \in Calls : ClearDirty(c)
    \/ \E c \in Calls : StoreResult(c)
    \/ \E c \in Calls : StoreMst(c)
    \/ \E c \in Calls : NotifyAndReturn(c)
    \/ \E s \in SlotNames : propagateDirty(s)

SpecSeq == Init /\ [][NextSeq]_vars

\* The consumer's request has left execute().
ReactionOver(c) == \A d \in Calls : reactTo[d] = c => pc[d] \in {"done", "failed"}

\* execute, line 426, with a consumer that reads PreprocessedData inside the
\* notification: the request enters execute() on the notifying thread and
\* meets the test of line 405 at once.
NotifyReact(c) ==
    /\ pc[c] = "L426"
    /\ setDirtyCount' = setDirtyCount + 1
    /\ IF nextRes \in Calls
          THEN /\ pc' = [pc EXCEPT ![c] = "L427",
                                   ![nextRes] = IF CacheUsable THEN "L406" ELSE "L238"]
               /\ reactTo' = [reactTo EXCEPT ![nextRes] = c]
               /\ nextRes' = nextRes + 1
               /\ quiet' = [quiet EXCEPT ![nextRes] = TRUE]
          ELSE /\ pc' = [pc EXCEPT ![c] = "L427"]
               /\ UNCHANGED <<reactTo, nextRes, quiet>>
    /\ solo' = [d \in Calls |-> FALSE]
    /\ seqRet' = 0
    /\ seqChg' = 0
    /\ UNCHANGED <<stageVars, slotValue, orchVars, volume_feat, labelVolume,
                   mst, ret, changes, expectSame, expectNew, builds>>

\* execute, lines 426-427: the notification returns, or raises what the
\* consumer's request raised; execute returns result.
ReturnAfterNotify(c) ==
    /\ pc[c] = "L427"
    /\ ReactionOver(c)
    /\ IF \E d \in Calls : reactTo[d] = c /\ pc[d] = "failed"
          THEN /\ pc' = [pc EXCEPT ![c] = "failed"]
               /\ UNCHANGED ret
          ELSE /\ pc' = [pc EXCEPT ![c] = "done"]
               /\ ret' = [ret EXCEPT ![c] = c]
    /\ mst' = [mst EXCEPT ![c] = NoGraph]
    /\ UNCHANGED <<stageVars, slotValue, orchVars, setDirtyCount, volume_feat,
                   labelVolume, nextRes, changes, histVars>>

NextReact ==
    \/ \E c \in Calls : Call(c)
    \/ \E c \in Calls : ReturnCached(c)
    \/ \E c \in Calls : ReadImage(c)
    \/ \E c \in Calls : ReadLabelImage(c)
    \/ \E c \in Calls : BuildMst(c)
    \/ \E c \in Calls : StageFails(c)
    \/ \E c \in Calls : Snapshot(c)
    \/ \E c \in Calls : SetUnsaved(c)
    \/ \E c \in Calls : ClearDirty(c)
    \/ \E c \in Calls : StoreResult(c)
    \/ \E c \in Calls : StoreMst(c)
    \/ \E c \in Calls : NotifyReact(c)
    \/ \E c \in Calls : ReturnAfterNotify(c)
    \/ \E s \in SlotNames : propagateDirty(s)

SpecReact == Init /\ [][NextReact]_vars

(* ======================= claims on OpPreprocessing ===================== *)
BuildLines == {"L238", "L239", "L256"}
StoreLines == {"L410", "L411", "L412", "L413", "L414", "L416", "L417",
               "L419", "L421", "L426"}

\* C1: a getResult() call that follows an undisturbed call (no other call
\* overlapping either of the two, no change event since the first began)
\* takes the cached path, never enters the pipeline and returns the very
\* buffer the first call returned.
C1_MemoizedReturn ==
    \A c \in Calls :
        (expectSame[c] # 0 /\ solo[c] /\ quiet[c]) =>
            /\ pc[c] \in {"L406", "done"}
            /\ pc[c] = "done" => ret[c] = expectSame[c] /\ ret[c] # c

C1_Witness ==
    \E c \in Calls :
        /\ pc[c] = "done" /\ expectSame[c] # 0 /\ solo[c] /\ quiet[c]
        /\ ret[c] = expectSame[c]
        /\ heap[ret[c]].id # 0

\* C2: when a parameter changes while a built result is cached and no call
\* is running, the next getResult() does not take the cached path: it runs
\* the pipeline and, when it returns, returns its own fresh buffer holding
\* the graph it built, not the buffer cached before the change.
C2_ChangeForcesRebuild ==
    \A c \in Calls :
        expectNew[c] # 0 =>
            /\ pc[c] # "L406"
            /\ pc[c] = "done" =>
                  /\ ret[c] = c
                  /\ ret[c] # expectNew[c]
                  /\ heap[ret[c]].id = ret[c]

C2_Witness ==
    \E c \in Calls :
        /\ pc[c] = "done" /\ expectNew[c] # 0
        /\ ret[c] = c /\ ret[c] # expectNew[c]
        /\ heap[expectNew[c]].id # 0
        /\ heap[ret[c]].with # heap[expectNew[c]].with

\* C3: every InputData change event leaves the orchestrator with _dirty
\* set, all five snapshot fields None and cachedResult = [None].
C3_InputRestart ==
    [][slotValue'["InputData"] # slotValue["InputData"] =>
          /\ dirty'
          /\ \A p \in ParamNames : cached'[p] = None
          /\ cachedResult' = 0
          /\ heap'[cachedResult'].id = 0]_vars

C3_Witness ==
    /\ \E c \in Calls :
          /\ pc[c] = "done" /\ solo[c] /\ quiet[c] /\ ret[c] = c
          /\ heap[c].with["InputData"] # slotValue["InputData"]
    /\ hasUnsavedData
    /\ dirty
    /\ \A p \in ParamNames : cached[p] = None
    /\ cachedResult = 0

\* C4: whenever a call has passed the test of line 405 and is about to
\* return the cache, with the orchestrator still Clean, the cached graph was
\* built from the current value of every parameter and of the root input.
C4_CachedOnlyIfCurrent ==
    \A c \in Calls :
        (pc[c] = "L406" /\ CacheUsable) => heap[cachedResult].with = slotValue

\* C5: a call that fails in the pipeline has written nothing: no step of a
\* call up to and including the failure changes the cached the
\* snapshot, the unsaved flag or the dirty flag; and after a failure that no
\* other call overlapped the test of line 405 still sends the next call
\* into the pipeline.
C5_FailureKeepsState ==
    [][\A c \in Calls :
          (pc'[c] # pc[c] /\ pc'[c] \in BuildLines \cup {"failed"}) =>
              /\ UNCHANGED <<dirty, cachedResult, heap, cached, hasUnsavedData>>
              /\ (pc'[c] = "failed" /\ solo[c]) => ~CacheUsable']_vars

C5_Witness ==
    \E c \in Calls :
        /\ pc[c] = "failed" /\ solo[c]
        /\ dirty /\ heap[cachedResult].id # 0
        /\ hasUnsavedData

\* C6: a call never returns a buffer without a graph, the orchestrator is
\* never Clean while cachedResult refers to the buffer of a rebuild that does
\* not hold its graph yet, and the snapshot fields that are set are those of
\* the cached graph.
C6_AtomicPublication ==
    /\ \A c \in Calls : pc[c] = "done" => heap[ret[c]].id # 0
    /\ \A c \in Calls :
          (pc[c] \in StoreLines /\ cachedResult = c /\ ~dirty) =>
              heap[cachedResult].id # 0
    /\ heap[cachedResult].id # 0 =>
          \A p \in ParamNames :
              cached[p] # None => cached[p] = heap[cachedResult].with[p]

\* C7: at most one graph is built between two consecutive change events.
C7_AtMostOneBuild == builds <= 1

\* C13: before any call and any change event the test of line 405 fails
\* (the orchestrator would rebuild), cachedResult is the placeholder [None]
\* and the five snapshot fields are None; the first execute() never takes
\* the cached return of line 406, and when it returns it returns its own
\* buffer holding a graph built from both volumes of the pipeline.
C13_FreshIsDirty ==
    /\ (nextRes = 1 /\ changes = 0) =>
          /\ ~CacheUsable
          /\ cachedResult = 0 /\ heap[cachedResult] = NoGraph
          /\ \A p \in ParamNames : cached[p] = None
          /\ ~hasUnsavedData
    /\ pc[1] # "L406"
    /\ pc[1] = "done" =>
          /\ ret[1] = 1
          /\ heap[1].id = 1
          /\ \A s \in SlotNames : heap[1].with[s] # None

C13_Witness ==
    /\ pc[1] = "done" /\ ret[1] = 1 /\ heap[1].id = 1
    /\ changes = 0 /\ nextRes = 2
    /\ cachedResult = 1 /\ ~dirty /\ setDirtyCount = 1

\* C14: whenever a cached graph exists, each of the five snapshot fields
\* equals the value of its parameter that the cached graph was built with.
\* Stated for the states in which no execute() is running, where the
\* snapshot is not being written.
C14_SnapshotMatchesGraph ==
    (NoneActive /\ heap[cachedResult].id # 0) =>
        \A p \in ParamNames : cached[p] = heap[cachedResult].with[p]

\* The calls that have returned the graph they built.
BuiltCalls == {c \in Calls : pc[c] = "done" /\ ret[c] = c}

\* C16: a call that builds sends one notification, at its return, with the
\* unsaved flag set and its graph in the buffer it returns (and, when no
\* other call and no change event interfered, with that buffer cached and
\* the dirty flag clear); no other step of a call sends a notification, so
\* the notifications sent are as many as the calls that built; a call that
\* takes the cached return, or fails, changes neither the notification
\* count nor the unsaved flag.
C16_NotifyOncePerBuild ==
    [][/\ setDirtyCount = Cardinality(BuiltCalls)
       /\ setDirtyCount' = Cardinality(BuiltCalls')
       /\ \A c \in Calls :
             /\ (pc[c] = "L426" /\ pc'[c] = "done") =>
                   /\ setDirtyCount' = setDirtyCount + 1
                   /\ hasUnsavedData /\ hasUnsavedData'
                   /\ heap[c].id = c /\ ret'[c] = c
                   /\ (solo[c] /\ quiet[c]) => (~dirty /\ cachedResult = c)
             /\ (pc'[c] # pc[c] /\ pc[c] # "L426") =>
                   setDirtyCount' = setDirtyCount
             /\ (pc'[c] # pc[c] /\ pc'[c] \in {"L406", "failed"}) =>
                   hasUnsavedData' = hasUnsavedData
             /\ (pc[c] = "L406" /\ pc'[c] = "done") =>
                   /\ hasUnsavedData' = hasUnsavedData
                   /\ ret'[c] # c]_vars

C16_Witness ==
    /\ pc[1] = "done" /\ ret[1] = 1
    /\ pc[2] = "done" /\ ret[2] = 1
    /\ pc[3] = "new"
    /\ setDirtyCount = 1 /\ hasUnsavedData /\ ~dirty

\* C20: the request a consumer makes inside the notification of a call
\* that no change event disturbed passes the test of line 405 with the
\* notifying call's buffer cached and holding its graph: it takes the
\* cached return, so it neither builds nor notifies.
C20_ReactionServedFromCache ==
    [][\A c \in Calls :
          (pc[c] = "L426" /\ pc'[c] = "L427" /\ quiet[c] /\ nextRes \in Calls) =>
              /\ pc'[nextRes] = "L406"
              /\ cachedResult = c
              /\ heap[c].id = c]_vars

(* ===================== OpMstSegmentorProvider ========================== *)
\* Values WatershedSegmentor may pass to its progress callback.
ProgressValues == {0, 1, 2, 3, 50, 100}

\* applet.progress holds whatever an earlier build left in it.
InitMst ==
    /\ InitOrch /\ WsIdle /\ NormIdle /\ PoolIdle /\ CheckIdle /\ FilterIdle
    /\ mpc = "idle" /\ signals = <<>> /\ callbacks = 0
    /\ callbackArg = 0 /\ inputsRead = {} /\ exitPath = "none"
    /\ progress \in ProgressValues

mstFrame == <<orchAll, wsVars, normVars, poolVars, checkVars, filterVars>>

\* execute, lines 233-236: the first statement sends progressSignal(-1).
MstEnter ==
    /\ mpc = "idle"
    /\ signals' = Append(signals, -1)
    /\ mpc' = "L238"
    /\ UNCHANGED <<progress, callbacks, inputsRead, exitPath, callbackArg, mstFrame>>

\* execute, line 238: volume_feat = self.Image(...).wait()
MstReadImage ==
    /\ mpc = "L238"
    /\ inputsRead' = inputsRead \cup {"Image"}
    /\ mpc' = "L239"
    /\ UNCHANGED <<signals, progress, callbacks, exitPath, callbackArg, mstFrame>>

\* execute, line 239: labelVolume = self.LabelImage(...).wait()
MstReadLabelImage ==
    /\ mpc = "L239"
    /\ inputsRead' = inputsRead \cup {"LabelImage"}
    /\ mpc' = "L241"
    /\ UNCHANGED <<signals, progress, callbacks, exitPath, callbackArg, mstFrame>>

\* The wait() of line 238 or of line 239 raises: control goes to finally.
MstReadFails ==
    /\ mpc \in {"L238", "L239"}
    /\ exitPath' = IF mpc = "L238" THEN "image" ELSE "label"
    /\ mpc' = "L270"
    /\ UNCHANGED <<signals, progress, callbacks, inputsRead, callbackArg, mstFrame>>

\* execute, line 241: self.applet.progress = 0
MstResetProgress ==
    /\ mpc = "L241"
    /\ progress' = 0
    /\ mpc' = "L256"
    /\ UNCHANGED <<signals, callbacks, inputsRead, exitPath, callbackArg, mstFrame>>

\* The test of line 245.
Significant_AtLeastOne(x, last) == x - last >= 1 \/ x = 100

Significant(x, last) == x - last > 1 \/ x = 100

\* execute, lines 243-247: WatershedSegmentor calls updateProgressBar(x)
\* while it builds the graph (line 256).
updateProgressBar(x) ==
    /\ mpc = "L256"
    /\ callbacks < MaxCallbacks
    /\ callbacks' = callbacks + 1
    /\ callbackArg' = x
    /\ IF Significant(x, progress)
          THEN /\ signals' = Append(signals, x)
               /\ progress' = x
          ELSE UNCHANGED <<signals, progress>>
    /\ UNCHANGED <<mpc, inputsRead, exitPath, mstFrame>>

\* WatershedSegmentor (line 256) raises: control goes to finally.
MstConstructFails ==
    /\ mpc = "L256"
    /\ exitPath' = "construct"
    /\ mpc' = "L270"
    /\ UNCHANGED <<signals, progress, callbacks, inputsRead, callbackArg, mstFrame>>

\* execute, lines 256-267: the graph is built, stored in result[0] and
\* returned; the return runs the finally block first.
MstReturn ==
    /\ mpc = "L256"
    /\ exitPath' = "normal"
    /\ mpc' = "L270"
    /\ UNCHANGED <<signals, progress, callbacks, inputsRead, callbackArg, mstFrame>>

\* execute, lines 269-270: what the finally block sends on exit path `path`.
FinallySignals_OnlyOnSuccess(sig, path) ==
    IF path = "normal" THEN Append(sig, 100) ELSE sig

FinallySignals(sig, path) == Append(sig, 100)

\* execute, lines 269-270, then the return or the propagation of the error.
MstFinally ==
    /\ mpc = "L270"
    /\ signals' = FinallySignals(signals, exitPath)
    /\ mpc' = IF exitPath = "normal" THEN "returned" ELSE "raised"
    /\ UNCHANGED <<progress, callbacks, inputsRead, exitPath, callbackArg, mstFrame>>

NextMst ==
    \/ MstEnter
    \/ MstReadImage
    \/ MstReadLabelImage
    \/ MstReadFails
    \/ MstResetProgress
    \/ \E x \in ProgressValues : updateProgressBar(x)
    \/ MstConstructFails
    \/ MstReturn
    \/ MstFinally

SpecMst == InitMst /\ [][NextMst]_vars

\* C8: a build has sent -1 as its first signal before it reads (or fails to
\* read) any input, and when it has left execute(), by return or by an error
\* raised while reading the feature volume, reading the label volume or
\* building the graph, the last signal sent is 100.
C8_StartedFirstFinishedLast ==
    /\ (inputsRead # {} \/ exitPath # "none" \/ mpc # "idle") =>
          (Len(signals) >= 1 /\ signals[1] = -1)
    /\ mpc = "L238" => signals = <<-1>>
    /\ mpc \in {"returned", "raised"} =>
          /\ signals[Len(signals)] = 100
          /\ mpc = "raised" <=> exitPath \in {"image", "label", "construct"}

C8_Witness ==
    /\ mpc = "raised" /\ exitPath = "construct"
    /\ inputsRead = {"Image", "LabelImage"}
    /\ Len(signals) = 3 /\ signals[1] = -1 /\ signals[2] = 50 /\ signals[3] = 100

\* C15: line 241 sets the recorded progress to 0 before the first callback;
\* a callback with argument x appends x to the signals and records x when
\* x - progress > 1 or x = 100, and otherwise changes neither; so an
\* emitted value exceeds the value emitted before it in this build (0 when
\* there is none) by more than 1, or is 100.
C15_ThrottledProgress ==
    [][/\ mpc = "L241" => progress' = 0
       /\ (mpc = "L256" /\ callbacks = 0) => progress = 0
       /\ callbacks' # callbacks =>
             /\ IF callbackArg' - progress > 1 \/ callbackArg' = 100
                   THEN /\ signals' = signals \o <<callbackArg'>>
                        /\ progress' = callbackArg'
                   ELSE /\ signals' = signals
                        /\ progress' = progress
             /\ signals' # signals =>
                   LET before == IF Len(signals) >= 2 THEN signals[Len(signals)] ELSE 0
                       now    == signals'[Len(signals')]
                   IN  now - before > 1 \/ now = 100]_vars

C15_Witness ==
    /\ mpc = "L256" /\ callbacks = 3 /\ callbackArg = 3
    /\ signals = <<-1, 2>> /\ progress = 2

(* =================== OpSimpleBlockwiseWatershed ======================== *)
Axes5 == 1..5

\* Volumes of the pipeline: (t, x, y, z, c) with t- and c-extent 1.
WsShapes ==
    {<<1, x, y, z, 1>> : x \in 1..MaxDim, y \in 1..MaxDim, z \in 1..MaxDim}

\* Requests the lazy-access substrate hands over: non-empty regions inside
\* the volume, [start, stop) on every axis.
AxisRois(n) == {p \in (0..n) \X (0..n) : p[1] < p[2]}

WsRois(sh) ==
    {<<t, x, y, z, c>> : t \in AxisRois(sh[1]), x \in AxisRois(sh[2]),
                         y \in AxisRois(sh[3]), z \in AxisRois(sh[4]),
                         c \in AxisRois(sh[5])}

\* The spatial voxels (x, y, z) of region r.
RoiVoxels(r) ==
    {v \in (0..(MaxDim - 1)) \X (0..(MaxDim - 1)) \X (0..(MaxDim - 1)) :
        \A i \in 1..3 : r[i + 1][1] <= v[i] /\ v[i] < r[i + 1][2]}

InitWs ==
    /\ InitOrch /\ MstIdle /\ NormIdle /\ PoolIdle /\ CheckIdle /\ FilterIdle
    /\ wpc = "L181"
    /\ wshape \in WsShapes
    /\ waxes \in {"txyzc", "tzyxc"}
    /\ wroi \in WsRois(wshape)
    /\ wDoAgglo \in BOOLEAN
    /\ wresult = [v \in RoiVoxels(wroi) |-> 0]
    /\ winputRead = FALSE
    /\ wflooded = FALSE

wsFrame == <<orchAll, mstVars, normVars, poolVars, checkVars, filterVars>>

\* execute, line 181: tuple(roi.stop - roi.start) != self.Output.meta.shape
ExtentDiffers_SpatialOnly(r, sh) ==
    \E a \in {2, 3} : r[a][2] - r[a][1] # sh[a]

ExtentDiffers(r, sh) == \E a \in Axes5 : r[a][2] - r[a][1] # sh[a]

\* execute, lines 181-182
WsCheckRoi ==
    /\ wpc = "L181"
    /\ wpc' = IF ExtentDiffers(wroi, wshape) THEN "raisedRoi" ELSE "L184"
    /\ UNCHANGED <<wshape, waxes, wroi, wDoAgglo, wresult, winputRead, wflooded, wsFrame>>

\* execute, lines 184-185
WsCheckAxes ==
    /\ wpc = "L184"
    /\ wpc' = IF waxes # "txyzc" THEN "raisedAxes" ELSE "L192"
    /\ UNCHANGED <<wshape, waxes, wroi, wDoAgglo, wresult, winputRead, wflooded, wsFrame>>

\* execute, line 192: the input is read and squeezed.
WsReadInput ==
    /\ wpc = "L192"
    /\ winputRead' = TRUE
    /\ wpc' = "L193"
    /\ UNCHANGED <<wshape, waxes, wroi, wDoAgglo, wresult, wflooded, wsFrame>>

\* numpy squeeze(): the spatial axes (1 = x, 2 = y, 3 = z) that are kept, in
\* order; the t and c axes have extent 1 and are always dropped.
SqueezedAxes(sh) == SelectSeq(<<1, 2, 3>>, LAMBDA i : sh[i + 1] > 1)

\* execute, lines 187-190: the spatial axes result[result_idx] ranges over:
\* numpy.s_[0, ..., 0] keeps x, y, z and numpy.s_[0, ..., 0, 0] keeps x, y.
ResultIdxAxes(sh) == IF sh[4] > 1 THEN <<1, 2, 3>> ELSE <<1, 2>>

\* execute, lines 193-194
WsCheckNdim ==
    /\ wpc = "L193"
    /\ wpc' = IF Len(SqueezedAxes(wshape)) \notin {2, 3} THEN "raisedNdim" ELSE "L199"
    /\ UNCHANGED <<wshape, waxes, wroi, wDoAgglo, wresult, winputRead, wflooded, wsFrame>>

\* The label the flooding gives the voxel u of its input: every voxel is told
\* apart, so that a misplaced label shows.
VoxelLabel(u, sh) == 1 + u[1] + sh[2] * (u[2] + sh[3] * u[3])

\* numpy assignment target[...] = source: the source axes are matched with
\* the trailing target axes and must have the same extents.
Broadcastable(src, tgt, sh) ==
    /\ Len(src) <= Len(tgt)
    /\ \A i \in 1..Len(src) :
          sh[src[Len(src) + 1 - i] + 1] = sh[tgt[Len(tgt) + 1 - i] + 1]

\* The input voxel whose label lands on output voxel v.
SourceVoxel(v, src, tgt) ==
    [a \in 1..3 |->
        IF \E i \in 1..Len(src) : src[Len(src) + 1 - i] = a
        THEN v[tgt[Len(tgt) + 1 - (CHOOSE i \in 1..Len(src) : src[Len(src) + 1 - i] = a)]]
        ELSE 0]

\* execute, lines 199-207: the flooding (with or without agglomeration)
\* runs on the squeezed input, then its labels are assigned to
\* result[result_idx]; an assignment numpy cannot broadcast raises.
WsFlood ==
    /\ wpc = "L199"
    /\ wflooded' = TRUE
    /\ IF Broadcastable(SqueezedAxes(wshape), ResultIdxAxes(wshape), wshape)
          THEN /\ wresult' = [v \in DOMAIN wresult |->
                     VoxelLabel(SourceVoxel(v, SqueezedAxes(wshape),
                                            ResultIdxAxes(wshape)), wshape)]
               /\ wpc' = "returned"
          ELSE /\ wpc' = "raisedAssign"
               /\ UNCHANGED wresult
    /\ UNCHANGED <<wshape, waxes, wroi, wDoAgglo, winputRead, wsFrame>>

NextWs ==
    \/ WsCheckRoi
    \/ WsCheckAxes
    \/ WsReadInput
    \/ WsCheckNdim
    \/ WsFlood

SpecWs == InitWs /\ [][NextWs]_vars

\* The request covers the entire volume.
WholeVolume(r, sh) == \A a \in Axes5 : r[a][1] = 0 /\ r[a][2] = sh[a]

\* C9: a request that does not cover the entire volume ends in the error of
\* line 182 with the input not read, the flooding not run and no cell of the
\* output buffer written; only whole-volume requests get past line 181.
C9_PartialRoiRejected ==
    /\ (~WholeVolume(wroi, wshape) /\ wpc # "L181") =>
          /\ wpc = "raisedRoi"
          /\ ~winputRead /\ ~wflooded
          /\ \A v \in DOMAIN wresult : wresult[v] = 0
    /\ (winputRead \/ wflooded) => WholeVolume(wroi, wshape)
    /\ wpc = "raisedRoi" => ~WholeVolume(wroi, wshape)

C9_Witness ==
    /\ wpc = "raisedRoi"
    /\ wshape = <<1, 2, 2, 2, 1>>
    /\ wroi[4] = <<0, 1>> /\ wroi[2] = <<0, 2>> /\ wroi[3] = <<0, 2>>
    /\ ~winputRead /\ \A v \in DOMAIN wresult : wresult[v] = 0

\* The stage has left execute(), by return or by an error.
WsEnded == wpc \in {"returned", "raisedRoi", "raisedAxes", "raisedNdim", "raisedAssign"}

\* The spatial axes of extent greater than 1.
NonSingleton(sh) == {a \in {2, 3, 4} : sh[a] > 1}

\* C17: a whole-volume request on a (t, x, y, z, c) volume of shape
\* (1, X, Y, Z, 1) ends, when 2 or 3 of X, Y, Z exceed 1, with a return and
\* every output voxel (x, y, z) holding the label of input voxel (x, y, z),
\* and otherwise with the error of line 194.
C17_LabelsPlaced ==
    (WsEnded /\ WholeVolume(wroi, wshape) /\ waxes = "txyzc") =>
        IF Cardinality(NonSingleton(wshape)) \in {2, 3}
        THEN /\ wpc = "returned"
             /\ \A v \in DOMAIN wresult : wresult[v] = VoxelLabel(v, wshape)
        ELSE wpc = "raisedNdim"

(* ========================== OpNormalize255 ============================= *)
\* float32 numbers: a quotient n / d of integers, or the NaN and the
\* infinities numpy produces when it divides by zero.
Num(n, d) == [k |-> "num", n |-> n, d |-> d]
NaN       == [k |-> "nan", n |-> 0, d |-> 0]
Inf(sign) == [k |-> "inf", n |-> sign, d |-> 0]

NormVolumes == [1..NormLen -> 0..MaxVoxel]
NormRois    == {r \in (1..NormLen) \X (1..NormLen) : r[1] <= r[2]}

InitNorm ==
    /\ InitOrch /\ MstIdle /\ WsIdle /\ PoolIdle /\ CheckIdle /\ FilterIdle
    /\ npc = "L153"
    /\ nvolume \in NormVolumes
    /\ nroi \in NormRois
    /\ nresult = <<>>
    /\ volume_max = 0
    /\ volume_min = 0

normFrame == <<orchAll, mstVars, wsVars, poolVars, checkVars, filterVars>>

\* execute, line 153: the requested region of the input is read into result.
NormRead ==
    /\ npc = "L153"
    /\ nresult' = [i \in 1..(nroi[2] - nroi[1] + 1) |-> Num(nvolume[nroi[1] + i - 1], 1)]
    /\ npc' = "L154"
    /\ UNCHANGED <<nvolume, nroi, volume_max, volume_min, normFrame>>

\* numpy.max and numpy.min of a buffer of plain numbers.
ArrayMax(a) == CHOOSE m \in {a[i].n : i \in DOMAIN a} : \A i \in DOMAIN a : a[i].n <= m
ArrayMin(a) == CHOOSE m \in {a[i].n : i \in DOMAIN a} : \A i \in DOMAIN a : a[i].n >= m

\* execute, lines 154-155
NormMaxMin ==
    /\ npc = "L154"
    /\ volume_max' = ArrayMax(nresult)
    /\ volume_min' = ArrayMin(nresult)
    /\ npc' = "L159"
    /\ UNCHANGED <<nvolume, nroi, nresult, normFrame>>

\* execute, line 159: result[:] -= volume_min
NormSubtract ==
    /\ npc = "L159"
    /\ nresult' = [i \in DOMAIN nresult |-> Num(nresult[i].n - volume_min, 1)]
    /\ npc' = "L160"
    /\ UNCHANGED <<nvolume, nroi, volume_max, volume_min, normFrame>>

\* execute, line 160: result[:] *= 255.0
NormScale ==
    /\ npc = "L160"
    /\ nresult' = [i \in DOMAIN nresult |-> Num(nresult[i].n * 255, 1)]
    /\ npc' = "L161"
    /\ UNCHANGED <<nvolume, nroi, volume_max, volume_min, normFrame>>

\* numpy's float division x / d: no exception; 0/0 is NaN, x/0 is +-inf.
FloatDiv(x, d) ==
    IF d # 0 THEN Num(x.n, d)
    ELSE IF x.n = 0 THEN NaN
    ELSE Inf(IF x.n > 0 THEN 1 ELSE -1)

\* execute, line 161: result[:] /= volume_max - volume_min
NormDivide ==
    /\ npc = "L161"
    /\ nresult' = [i \in DOMAIN nresult |-> FloatDiv(nresult[i], volume_max - volume_min)]
    /\ npc' = "L162"
    /\ UNCHANGED <<nvolume, nroi, volume_max, volume_min, normFrame>>

\* execute, line 162: return result
NormReturn ==
    /\ npc = "L162"
    /\ npc' = "returned"
    /\ UNCHANGED <<nvolume, nroi, nresult, volume_max, volume_min, normFrame>>

NextNorm ==
    \/ NormRead
    \/ NormMaxMin
    \/ NormSubtract
    \/ NormScale
    \/ NormDivide
    \/ NormReturn

SpecNorm == InitNorm /\ [][NextNorm]_vars

\* Every voxel of the volume has the same value.
IsConstant(vol) == \A i, j \in DOMAIN vol : vol[i] = vol[j]

\* C10: on a constant input volume the stage never returns a volume: it does
\* not reach the return of line 162 and no element of the result is the
\* outcome of a division by zero.
C10_ConstantVolumeFails ==
    IsConstant(nvolume) =>
        /\ npc # "returned"
        /\ \A i \in DOMAIN nresult : nresult[i].k = "num"

\* The largest and the smallest voxel of the entire input volume.
GlobalMax(vol) == CHOOSE m \in {vol[i] : i \in DOMAIN vol} : \A i \in DOMAIN vol : vol[i] <= m
GlobalMin(vol) == CHOOSE m \in {vol[i] : i \in DOMAIN vol} : \A i \in DOMAIN vol : vol[i] >= m

\* x is the number q / 1.
IsValue(x, q) == x.k = "num" /\ x.n = q * x.d

\* C18: on a non-constant volume the stage returns, for voxel j of the
\* requested region, (volume[j] - min) * 255 / (max - min) with min and max
\* taken over the entire volume; a whole-volume result has minimum 0 and
\* maximum 255.
C18_GlobalMinMax ==
    (npc = "returned" /\ ~IsConstant(nvolume)) =>
        LET gmax == GlobalMax(nvolume)
            gmin == GlobalMin(nvolume)
        IN  /\ \A i \in DOMAIN nresult :
                  /\ nresult[i].k = "num"
                  /\ nresult[i].n * (gmax - gmin) =
                        (nvolume[nroi[1] + i - 1] - gmin) * 255 * nresult[i].d
            /\ nroi = <<1, NormLen>> =>
                  /\ \E i \in DOMAIN nresult : IsValue(nresult[i], 0)
                  /\ \E i \in DOMAIN nresult : IsValue(nresult[i], 255)
                  /\ \A i \in DOMAIN nresult :
                        /\ nresult[i].k = "num"
                        /\ 0 <= nresult[i].n
                        /\ nresult[i].n <= 255 * nresult[i].d

(* ============ block tasks of OpFilter / OpSimpleBlockwiseWatershed ===== *)
PoolStages == {"OpFilter", "OpSimpleBlockwiseWatershed"}

InitPool ==
    /\ InitOrch /\ MstIdle /\ WsIdle /\ NormIdle /\ CheckIdle /\ FilterIdle
    /\ ppc = "enter"
    /\ pstage \in PoolStages
    /\ pDoAgglo \in BOOLEAN
    /\ num_workers \in 0..MaxWorkers
    /\ max_workers = 0
    /\ task = [b \in Blocks |-> "pending"]

poolFrame == <<orchAll, mstVars, wsVars, normVars, checkVars, filterVars>>

\* OpFilter.execute, line 122, and OpSimpleBlockwiseWatershed.execute, line
\* 202: max(1, Request.global_thread_pool.num_workers)
EffectiveWorkers_Unclamped(n) == n

EffectiveWorkers(n) == IF 1 >= n THEN 1 ELSE n

\* The stage hands its block tasks to the pool: OpFilter at line 124, the
\* watershed at lines 199-205 when DoAgglo is set.
UsesPool == pstage = "OpFilter" \/ pDoAgglo

\* OpFilter.execute, lines 122-124; OpSimpleBlockwiseWatershed.execute,
\* lines 199-205: the worker count is fixed and the block code is entered.
PoolSize ==
    /\ ppc = "enter" /\ UsesPool
    /\ max_workers' = EffectiveWorkers(num_workers)
    /\ ppc' = "blocks"
    /\ UNCHANGED <<pstage, pDoAgglo, num_workers, task, poolFrame>>

\* OpSimpleBlockwiseWatershed.execute, lines 206-207: without agglomeration
\* vigra floods the volume in one call; no block task, no worker count.
PlainWatershed ==
    /\ ppc = "enter" /\ ~UsesPool
    /\ ppc' = "returned"
    /\ UNCHANGED <<pstage, pDoAgglo, num_workers, max_workers, task, poolFrame>>

Running == {b \in Blocks : task[b] = "running"}

\* A worker takes a pending block task: at most max_workers tasks run at a
\* time.
TaskStart(b) ==
    /\ ppc = "blocks"
    /\ task[b] = "pending"
    /\ Cardinality(Running) < max_workers
    /\ task' = [task EXCEPT ![b] = "running"]
    /\ UNCHANGED <<ppc, pstage, pDoAgglo, num_workers, max_workers, poolFrame>>

\* A running block task finishes; its worker is free again.
TaskFinish(b) ==
    /\ ppc = "blocks"
    /\ task[b] = "running"
    /\ task' = [task EXCEPT ![b] = "done"]
    /\ UNCHANGED <<ppc, pstage, pDoAgglo, num_workers, max_workers, poolFrame>>

\* The block code returns once every block task is done.
PoolReturn ==
    /\ ppc = "blocks"
    /\ \A b \in Blocks : task[b] = "done"
    /\ ppc' = "returned"
    /\ UNCHANGED <<pstage, pDoAgglo, num_workers, max_workers, task, poolFrame>>

NextPool ==
    \/ PoolSize
    \/ PlainWatershed
    \/ \E b \in Blocks : TaskStart(b)
    \/ \E b \in Blocks : TaskFinish(b)
    \/ PoolReturn

\* The stage's thread and the pool's workers keep running: a step that is
\* possible is eventually taken.
SpecPool == InitPool /\ [][NextPool]_vars /\ WF_vars(NextPool)

\* C11: for every reported worker count, zero included, the worker count
\* handed to the filter stage and to the agglomerating watershed stage is
\* the reported count if that is at least 1 and 1 otherwise; and the stage
\* returns, which it does only after every block task is done.
C11_AtLeastOneWorker ==
    /\ [](ppc \in {"blocks", "returned"} /\ UsesPool =>
            /\ max_workers >= 1
            /\ num_workers >= 1 => max_workers = num_workers
            /\ num_workers = 0 => max_workers = 1
            /\ ppc = "returned" => \A b \in Blocks : task[b] = "done")
    /\ <>(ppc = "returned")

C11_Witness ==
    /\ ppc = "returned" /\ pstage = "OpSimpleBlockwiseWatershed" /\ pDoAgglo
    /\ num_workers = 0 /\ max_workers = 1
    /\ \A b \in Blocks : task[b] = "done"

(* ================= OpPreprocessing._checkConstraints =================== *)
\* Metadata InputData may carry when the ready callback fires: ready(), the
\* tagged extents of t and c, len(meta.shape), and whether axes 1..3 are
\* spatial.
InputMetas ==
    [ready : BOOLEAN, t : 1..MaxDim, c : 1..MaxDim, naxes : {4, 5},
     spatial : BOOLEAN]

\* OverlayData: ready(), and eq_shapes(overlay tagged shape, input tagged
\* shape).
OverlayMetas == [ready : BOOLEAN, eq : BOOLEAN]

\* DatasetConstraintError("Carving", message), lines 363-367, 369-373,
\* 382-386, and the AssertionError of lines 376-377.
DatasetConstraintError(message) ==
    [type |-> "DatasetConstraintError", category |-> "Carving", message |-> message]

AssertionError(message) ==
    [type |-> "AssertionError", category |-> "", message |-> message]

\* lines 365-366
ChannelMessage(c) ==
    <<"Input image must have exactly one channel. ",
      "You attempted to add a dataset with ", c, " channels">>

\* lines 371-372
TimeMessage(t) ==
    <<"Input image must not have more than one time point. ",
      "You attempted to add a dataset with ", t, " time points">>

\* lines 384-385
OverlayMessage ==
    <<"Overlay image must have the same shape as raw data (different channels are ok). ">>

\* The ready callback of InputData or OverlayData (lines 354-355) fires with
\* no execute() running.
CheckEnter(m, o) ==
    /\ cpc = "idle"
    /\ NoneActive
    /\ cmeta' = m
    /\ coverlay' = o
    /\ cpc' = "L359"
    /\ UNCHANGED <<cerror, orchAll, mstVars, wsVars, normVars, poolVars, filterVars>>

checkFrame == <<cmeta, coverlay, orchAll, mstVars, wsVars, normVars, poolVars,
                filterVars>>

\* _checkConstraints, lines 358-360
CheckReady ==
    /\ cpc = "L359"
    /\ cpc' = IF ~cmeta.ready THEN "returned" ELSE "L362"
    /\ UNCHANGED <<cerror, checkFrame>>

\* The test of line 362.
ChannelCountWrong_MoreThanTwo(m) == m.c > 2

ChannelCountWrong(m) == m.c # 1

\* _checkConstraints, lines 362-367
CheckChannel ==
    /\ cpc = "L362"
    /\ IF ChannelCountWrong(cmeta)
          THEN /\ cerror' = DatasetConstraintError(ChannelMessage(cmeta.c))
               /\ cpc' = "raised"
          ELSE /\ cpc' = "L368"
               /\ UNCHANGED cerror
    /\ UNCHANGED checkFrame

\* _checkConstraints, lines 368-373
CheckTime ==
    /\ cpc = "L368"
    /\ IF cmeta.t # 1
          THEN /\ cerror' = DatasetConstraintError(TimeMessage(cmeta.t))
               /\ cpc' = "raised"
          ELSE /\ cpc' = "L376"
               /\ UNCHANGED cerror
    /\ UNCHANGED checkFrame

\* _checkConstraints, line 376
CheckShapeLen ==
    /\ cpc = "L376"
    /\ IF cmeta.naxes # 5
          THEN /\ cerror' = AssertionError(<<"was expecting a 5D dataset">>)
               /\ cpc' = "raised"
          ELSE /\ cpc' = "L377"
               /\ UNCHANGED cerror
    /\ UNCHANGED checkFrame

\* _checkConstraints, line 377
CheckSpatial ==
    /\ cpc = "L377"
    /\ IF ~cmeta.spatial
          THEN /\ cerror' = AssertionError(<<"2nd to 4th axes must be spatial">>)
               /\ cpc' = "raised"
          ELSE /\ cpc' = "L379"
               /\ UNCHANGED cerror
    /\ UNCHANGED checkFrame

\* _checkConstraints, lines 379-386
CheckOverlay ==
    /\ cpc = "L379"
    /\ IF coverlay.ready /\ ~coverlay.eq
          THEN /\ cerror' = DatasetConstraintError(OverlayMessage)
               /\ cpc' = "raised"
          ELSE /\ cpc' = "returned"
               /\ UNCHANGED cerror
    /\ UNCHANGED checkFrame

\* One client: its first execute() and the change events around it, then
\* the callback.
OrchStep ==
    /\ cpc = "idle"
    /\ \/ CallSeq(1)
       \/ ReadImage(1)
       \/ ReadLabelImage(1)
       \/ BuildMst(1)
       \/ StageFails(1)
       \/ Snapshot(1)
       \/ SetUnsaved(1)
       \/ ClearDirty(1)
       \/ StoreResult(1)
       \/ StoreMst(1)
       \/ NotifyAndReturn(1)
       \/ \E s \in SlotNames : propagateDirty(s)

NextCheck ==
    \/ OrchStep
    \/ \E m \in InputMetas, o \in OverlayMetas : CheckEnter(m, o)
    \/ CheckReady
    \/ CheckChannel
    \/ CheckTime
    \/ CheckShapeLen
    \/ CheckSpatial
    \/ CheckOverlay

SpecCheck == Init /\ [][NextCheck]_vars

\* C12: no step of the constraint check changes the dirty flag, the cached
\* result, the content of a result buffer, the snapshot or the unsaved flag;
\* and on a ready root input whose channel extent is not 1 the check ends
\* at the test of line 362 by raising DatasetConstraintError with category
\* "Carving" and the channel-count message naming the extent, so that an
\* orchestrator that would rebuild before the check still would after it.
C12_ChannelErrorKeepsState ==
    [][cpc # "idle" =>
          /\ UNCHANGED <<dirty, cachedResult, heap, cached, hasUnsavedData>>
          /\ (cpc = "L362" /\ cmeta.c # 1) =>
                /\ cpc' = "raised"
                /\ cerror'.type = "DatasetConstraintError"
                /\ cerror'.category = "Carving"
                /\ cerror'.message =
                      <<"Input image must have exactly one channel. ",
                        "You attempted to add a dataset with ", cmeta.c, " channels">>
                /\ CacheUsable' = CacheUsable
          /\ (cpc = "L359" /\ cmeta.ready /\ cmeta.c # 1) => cpc' = "L362"]_vars

C12_Witness ==
    /\ cpc = "raised" /\ cmeta.ready /\ cmeta.c = 2 /\ cmeta.t = 2
    /\ cerror = DatasetConstraintError(ChannelMessage(2))
    /\ dirty /\ cachedResult = 0 /\ cached = Unset /\ hasUnsavedData

(* ============================= OpFilter ================================ *)
\* OpFilter's filter kinds, lines 51-55.
HESSIAN_BRIGHT == 0
HESSIAN_DARK   == 1
STEP_EDGES     == 2
RAW            == 3
RAW_INVERTED   == 4

FilterKinds == {HESSIAN_BRIGHT, HESSIAN_DARK, STEP_EDGES, RAW, RAW_INVERTED}

\* FILTER_NAMES, lines 57-63.
FILTER_NAMES(f) ==
    CASE f = 0 -> "hessianOfGaussianEigenvalues"
      [] f = 1 -> "hessianOfGaussianEigenvalues"
      [] f = 2 -> "gaussianGradientMagnitude"
      [] f = 3 -> "gaussianSmoothing"
      [] f = 4 -> "gaussianSmoothing"

\* Two-voxel volumes: the input intensities, and the responses the filter
\* may return (its numerics are not part of this operator).
FilterVolumes == [{1, 2} -> 0..MaxVoxel]

InitFilter ==
    /\ InitOrch /\ MstIdle /\ WsIdle /\ NormIdle /\ PoolIdle /\ CheckIdle
    /\ fpc = "L94"
    /\ volume \in FilterVolumes
    /\ zExtent \in {1, 2}
    /\ volume_filter \in FilterKinds
    /\ filter_name = "" /\ fvol = <<>> /\ ndim = 3 /\ channel = NoChannel
    /\ filterCall = NoCall /\ filtered = <<>> /\ response = <<>>
    /\ result_view = <<>>

filterFrame == <<orchAll, mstVars, wsVars, normVars, poolVars, checkVars>>

\* execute, lines 94-98: fvol is the volume as float32; the filter is chosen.
FilterChoose ==
    /\ fpc = "L94"
    /\ fvol' = volume
    /\ filter_name' = FILTER_NAMES(volume_filter)
    /\ fpc' = "L105"
    /\ UNCHANGED <<volume, zExtent, volume_filter, ndim, channel, filterCall,
                   filtered, response, result_view, filterFrame>>

\* execute, lines 105-106: a volume of z-extent 1 is filtered as 2D.
FilterReduce ==
    /\ fpc = "L105"
    /\ ndim' = IF zExtent = 1 THEN 2 ELSE 3
    /\ fpc' = "L109"
    /\ UNCHANGED <<volume, zExtent, volume_filter, filter_name, fvol, channel,
                   filterCall, filtered, response, result_view, filterFrame>>

\* The test of line 109.
InvertsInput_RawToo(f) == f \in {RAW, RAW_INVERTED}

InvertsInput(f) == f = RAW_INVERTED

\* execute, lines 109-110
FilterNegate ==
    /\ fpc = "L109"
    /\ fvol' = IF InvertsInput(volume_filter)
                 THEN [i \in DOMAIN fvol |-> 0 - fvol[i]]
                 ELSE fvol
    /\ fpc' = "L114"
    /\ UNCHANGED <<volume, zExtent, volume_filter, filter_name, ndim, channel,
                   filterCall, filtered, response, result_view, filterFrame>>

\* execute, lines 114-119
FilterChannel ==
    /\ fpc = "L114"
    /\ channel' = IF volume_filter = HESSIAN_BRIGHT THEN ndim - 1
                  ELSE IF volume_filter = HESSIAN_DARK THEN 0
                  ELSE NoChannel
    /\ fpc' = "L124"
    /\ UNCHANGED <<volume, zExtent, volume_filter, filter_name, fvol, ndim,
                   filterCall, filtered, response, result_view, filterFrame>>

\* execute, lines 122-124: parallel_filter(filter_name, fvol, sigma,
\* return_channel=channel) returns some response r.
FilterRun(r) ==
    /\ fpc = "L124"
    /\ filterCall' = [name |-> filter_name, vol |-> fvol, return_channel |-> channel]
    /\ filtered' = r
    /\ response' = r
    /\ fpc' = "L127"
    /\ UNCHANGED <<volume, zExtent, volume_filter, filter_name, fvol, ndim,
                   channel, result_view, filterFrame>>

\* numpy.max of a non-empty array.
NumpyMax(a) == CHOOSE m \in {a[i] : i \in DOMAIN a} : \A i \in DOMAIN a : a[i] <= m

\* execute, lines 127-128
FilterInvert ==
    /\ fpc = "L127"
    /\ response' = IF volume_filter = HESSIAN_BRIGHT
                     THEN [i \in DOMAIN response |-> NumpyMax(response) - response[i]]
                     ELSE response
    /\ fpc' = "L131"
    /\ UNCHANGED <<volume, zExtent, volume_filter, filter_name, fvol, ndim,
                   channel, filterCall, filtered, result_view, filterFrame>>

\* execute, lines 131-138: the response is written to the output, which is
\* returned.
FilterWrite ==
    /\ fpc = "L131"
    /\ result_view' = response
    /\ fpc' = "returned"
    /\ UNCHANGED <<volume, zExtent, volume_filter, filter_name, fvol, ndim,
                   channel, filterCall, filtered, response, filterFrame>>

NextFilter ==
    \/ FilterChoose
    \/ FilterReduce
    \/ FilterNegate
    \/ FilterChannel
    \/ \E r \in FilterVolumes : FilterRun(r)
    \/ FilterInvert
    \/ FilterWrite

SpecFilter == InitFilter /\ [][NextFilter]_vars

\* C19: when the stage has returned, the filter was given the negated
\* intensities for smoothed-inverted (kind 4) and the intensities as they
\* are for every other kind; it was asked for the last eigen-channel (index
\* 1 in 2D, 2 in 3D) for ridge-bright (kind 0), for the first for ridge-dark
\* (kind 1) and for no channel otherwise; and the output is the filter's
\* response subtracted from its maximum for ridge-bright and the response
\* itself for every other kind.
C19_FilterPolicy ==
    fpc = "returned" =>
        /\ filterCall.vol =
              IF volume_filter = 4 THEN [i \in {1, 2} |-> 0 - volume[i]] ELSE volume
        /\ filterCall.return_channel =
              CASE volume_filter = 0 -> (IF zExtent = 1 THEN 1 ELSE 2)
                [] volume_filter = 1 -> 0
                [] OTHER -> NoChannel
        /\ filterCall.name \in
              CASE volume_filter \in {0, 1} -> {"hessianOfGaussianEigenvalues"}
                [] volume_filter = 2 -> {"gaussianGradientMagnitude"}
                [] OTHER -> {"gaussianSmoothing"}
        /\ \A i \in {1, 2} :
              /\ volume_filter = 0 =>
                    \E j \in {1, 2} :
                        /\ \A k \in {1, 2} : filtered[k] <= filtered[j]
                        /\ result_view[i] = filtered[j] - filtered[i]
              /\ volume_filter # 0 => result_view[i] = filtered[i]

C19_Witness ==
    /\ fpc = "returned" /\ volume_filter = RAW_INVERTED
    /\ volume = <<1, 2>> /\ filterCall.vol = <<-1, -2>>
    /\ filtered = <<0, 2>> /\ result_view = <<0, 2>>

====
